---- MODULE Spec2Model ----
(***************************************************************************)
(* WarPlan (src/main.c): the dice engine, the combat resolver              *)
(* (SingleAttack, AttackTerritory, SimAttack), the outcome predictor       *)
(* (PredictAttack) and the allocation planner (PlanWar).                   *)
(*                                                                         *)
(* Five specifications share the variables:                                *)
(*   SpecRound  one call of SingleAttack, the dice kept in the state       *)
(*   Spec       PredictAttack running SimAttack over one attack vector     *)
(*   SpecDice   UniformDiceRoll fed every raw value of the generator once  *)
(*   SpecPlan   PlanWar: the setup table, the enumeration and the sort     *)
(*   SpecEnum   PlanWar with sim_iterations = 0, over more vectors and bonus *)
(***************************************************************************)
EXTENDS Integers, Sequences, FiniteSets

\* ------------------------------------------------------------------ bounds
\* Largest units_on_front of an attack vector (Spec).
MaxFront == 4
\* Largest bonus_units given to PredictAttack (Spec).
MaxBonus == 1
\* Largest territory_count of an attack vector (Spec).
MaxTerritories == 2
\* Largest units of one territory (Spec).
MaxUnits == 2
\* Largest sim_iterations of PredictAttack (Spec).
MaxIterations == 2
\* Largest units_on_front and territory_units handed to SingleAttack (SpecRound).
RoundMaxFront == 5
RoundMaxUnits == 3
\* Largest width in bits of unsigned int in SpecDice (UINT_MAX = 2^bits - 1).
DiceMaxBits == 6
\* Largest attack_vector_count, bonus_units and sim_iterations of PlanWar, and
\* the largest table attack_vector_count*(bonus_units+1) of setups (SpecPlan).
MaxVectors == 3
MaxBonusPool == 2
MaxPlanIterations == 2
MaxSetups == 6
\* Largest attack_vector_count and bonus_units of PlanWar with sim_iterations = 0
\* (SpecEnum).
EnumMaxVectors == 3
EnumMaxBonusPool == 3
\* The growth step of the plans array: 100000 in the source, scaled down so that
\* the array grows within the bounds above.
PLANS_SIZE_INCREMENT == 2
\* Width in bits of unsigned int in the model (32 in the build; TLC's integers
\* are 32-bit signed, so UINT_MAX+1 itself is out of reach).
UintBits == 4

\* ------------------------------------------------------- program constants
MIN_TERRITORY_UNITS == 1
MAX_ATTACK_DICE_COUNT == 3
MAX_DEFEND_DICE_COUNT == 2
DICE_SIDES == 6

\* unsigned int arithmetic is modulo UINT_MAX+1.
UintMod == 2^UintBits

MIN(a, b) == IF a < b THEN a ELSE b

USub(a, b) == (a - b) % UintMod
UAdd(a, b) == (a + b) % UintMod

VARIABLES
    pc,                         \* position in the running function
    attack_vector,              \* struct attack_vector_def: units_on_front, territory_vector
    bonus_units,                \* PredictAttack's bonus_units
    remaining,                  \* PredictAttack's loop counter
    win_count, loss_count,      \* PredictAttack's counters
    total_units_on_front,
    total_enemy_units_remaining,
    total_territories_remaining,
    enemy_units_remaining,      \* PredictAttack's local of the loss branch
    result,                     \* struct attack_result
    units_on_front,             \* SimAttack's units_on_front
    territory_cursor,           \* SimAttack's territory_cursor-territory_vector
    size,                       \* SimAttack's loop counter
    remaining_units_on_front,   \* SimAttack's out value of AttackTerritory
    remaining_territory_units,
    at_units_on_front,          \* AttackTerritory's parameter units_on_front
    front_units,                \* AttackTerritory's front_units
    territory_units,            \* AttackTerritory's territory_units
    sa_units_on_front,          \* SingleAttack's parameter units_on_front
    sa_territory_units,         \* SingleAttack's parameter territory_units
    attack_dice, defend_dice,   \* SingleAttack's dice arrays, live inside the call
    lost_attack_units, lost_defend_units,
    rounds,                     \* history: SingleAttack calls of this AttackTerritory call
    outcomes,                   \* history: the AttackTerritory calls of this SimAttack call
                                \* in order, each the 0-based index of its territory and
                                \* the defenders it left there
    uint_max, rand_max,         \* the build's UINT_MAX and RAND_MAX
    rand_next,                  \* the raw value the generator returns next
    rand_value, dice_value,     \* UniformDiceRoll's locals
    face_count,                 \* history: the calls that returned each face
    reject_count,               \* history: the raw values resampled
    attack_vector_count,        \* PlanWar's parameters
    plan_bonus_units,
    likelihood_threshold,
    sim_iterations,
    setups,                     \* PlanWar's table setups[index][bonus]
    setup_index, setup_bonus,   \* the loop variables of the table's two for loops
    bonus_indices,              \* PlanWar's bonus_indices
    plans,                      \* the slots of PlanWar's plans array written so far
    cursor,                     \* PlanWar's cursor-plans
    plans_size, plans_count,
    reported                    \* the setups PlanWar prints

combatVars == <<attack_vector, bonus_units, remaining, win_count, loss_count,
                total_units_on_front, total_enemy_units_remaining,
                total_territories_remaining, enemy_units_remaining, result,
                units_on_front, territory_cursor, size, remaining_units_on_front,
                remaining_territory_units, at_units_on_front, front_units,
                territory_units, rounds, outcomes>>

roundVars == <<sa_units_on_front, sa_territory_units, attack_dice, defend_dice,
               lost_attack_units, lost_defend_units>>

diceVars == <<uint_max, rand_max, rand_next, rand_value, dice_value, face_count,
              reject_count>>

planVars == <<attack_vector_count, plan_bonus_units, likelihood_threshold,
              sim_iterations, setups, setup_index, setup_bonus, bonus_indices,
              plans, cursor, plans_size, plans_count, reported>>

vars == <<pc, combatVars, roundVars, diceVars, planVars>>

\* ------------------------------------------------------------- dice engine
CompareDice(left, right) == right - left

RECURSIVE InsertDie(_, _)
InsertDie(die, sorted) ==
    IF sorted = <<>> THEN <<die>>
    ELSE IF CompareDice(die, Head(sorted)) <= 0 THEN <<die>> \o sorted
    ELSE <<Head(sorted)>> \o InsertDie(die, Tail(sorted))

\* qsort(dice, count, sizeof(unsigned int), &CompareDice)
RECURSIVE SortDice(_)
SortDice(dice) ==
    IF dice = <<>> THEN <<>> ELSE InsertDie(Head(dice), SortDice(Tail(dice)))

\* The faces UniformDiceRoll returns.
DiceFaces == 1..DICE_SIDES

\* RollDice(dice, count): every array the call can leave in dice.
RollDice(count) == {SortDice(raw) : raw \in [1..count -> DiceFaces]}

\* ------------------------------------------------------------ SingleAttack
AttackDiceCount(front) == MIN(USub(front, MIN_TERRITORY_UNITS), MAX_ATTACK_DICE_COUNT)
DefendDiceCount(units) == MIN(units, MAX_DEFEND_DICE_COUNT)

\* Mutant of DefenderLoses: a tie goes to the attacker.
DefenderLoses_TieToAttacker(attack_die, defend_die) == attack_die >= defend_die

\* The comparison of one pair of dice: TRUE when the defender loses the unit.
DefenderLoses(attack_die, defend_die) == attack_die > defend_die

\* The comparison loop over the first compare_dice_count positions.
CompareLosses(a_dice, d_dice, compare_dice_count) ==
    LET won == {i \in 1..compare_dice_count : DefenderLoses(a_dice[i], d_dice[i])}
    IN  [lost_attack_units |-> compare_dice_count - Cardinality(won),
         lost_defend_units |-> Cardinality(won)]

\* Every (lost_attack_units, lost_defend_units) a round with these dice counts can give.
LossesOf(attack_dice_count, defend_dice_count) ==
    {CompareLosses(a, d, MIN(attack_dice_count, defend_dice_count)) :
        a \in RollDice(attack_dice_count), d \in RollDice(defend_dice_count)}

LossTable ==
    [ac \in 0..MAX_ATTACK_DICE_COUNT |->
        [dc \in 0..MAX_DEFEND_DICE_COUNT |-> LossesOf(ac, dc)]]

\* One call of SingleAttack, observed at its last statement: the dice arrays are live.
SingleAttack ==
    /\ pc = "SingleAttack"
    /\ LET attack_dice_count == AttackDiceCount(sa_units_on_front)
           defend_dice_count == DefendDiceCount(sa_territory_units)
       IN  \E a_raw \in [1..attack_dice_count -> DiceFaces],
              d_raw \in [1..defend_dice_count -> DiceFaces] :
             LET a == SortDice(a_raw)
                 d == SortDice(d_raw)
                 l == CompareLosses(a, d, MIN(attack_dice_count, defend_dice_count))
             IN  /\ attack_dice' = a
                 /\ defend_dice' = d
                 /\ lost_attack_units' = l.lost_attack_units
                 /\ lost_defend_units' = l.lost_defend_units
                 /\ front_units' = USub(sa_units_on_front, l.lost_attack_units)
                 /\ territory_units' = USub(sa_territory_units, l.lost_defend_units)
    /\ pc' = "SingleAttackEnd"
    /\ UNCHANGED <<attack_vector, bonus_units, remaining, win_count, loss_count,
                   total_units_on_front, total_enemy_units_remaining,
                   total_territories_remaining, enemy_units_remaining, result,
                   units_on_front, territory_cursor, size, remaining_units_on_front,
                   remaining_territory_units, at_units_on_front, rounds, outcomes,
                   sa_units_on_front, sa_territory_units,
                   diceVars, planVars>>

IdleCombat ==
    /\ attack_vector = [units_on_front |-> 1, territory_vector |-> <<0>>]
    /\ bonus_units = 0
    /\ remaining = 0
    /\ win_count = 0
    /\ loss_count = 0
    /\ total_units_on_front = 0
    /\ total_enemy_units_remaining = 0
    /\ total_territories_remaining = 0
    /\ enemy_units_remaining = 0
    /\ result = [conquered_territory_count |-> 0, units_on_front |-> 0,
                 enemy_units_on_front |-> 0]
    /\ units_on_front = 0
    /\ territory_cursor = 0
    /\ size = 0
    /\ remaining_units_on_front = 0
    /\ remaining_territory_units = 0
    /\ at_units_on_front = 0
    /\ rounds = 0
    /\ outcomes = <<>>

IdleRound ==
    /\ sa_units_on_front = 0
    /\ sa_territory_units = 0
    /\ attack_dice = <<>>
    /\ defend_dice = <<>>
    /\ lost_attack_units = 0
    /\ lost_defend_units = 0

IdleDice ==
    /\ uint_max = 0
    /\ rand_max = 0
    /\ rand_next = 0
    /\ rand_value = 0
    /\ dice_value = 0
    /\ face_count = [f \in DiceFaces |-> 0]
    /\ reject_count = 0

IdlePlan ==
    /\ attack_vector_count = 0
    /\ plan_bonus_units = 0
    /\ likelihood_threshold = [num |-> 0, den |-> 1]
    /\ sim_iterations = 0
    /\ setups = <<>>
    /\ setup_index = 0
    /\ setup_bonus = 0
    /\ bonus_indices = <<>>
    /\ plans = <<>>
    /\ cursor = 0
    /\ plans_size = 0
    /\ plans_count = 0
    /\ reported = <<>>

InitRound ==
    /\ pc = "SingleAttack"
    /\ IdleCombat
    /\ IdleDice
    /\ IdlePlan
    /\ sa_units_on_front \in 2..RoundMaxFront
    /\ sa_territory_units \in 1..RoundMaxUnits
    /\ front_units = sa_units_on_front
    /\ territory_units = sa_territory_units
    /\ attack_dice = <<>>
    /\ defend_dice = <<>>
    /\ lost_attack_units = 0
    /\ lost_defend_units = 0

NextRound == SingleAttack

SpecRound == InitRound /\ [][NextRound]_vars

\* --------------------------------------------------------- AttackTerritory
\* Mutant of AttackContinues: the front is tested against the floor with >=.
AttackContinues_AtFloor(front, units) == front >= MIN_TERRITORY_UNITS /\ units > 0

\* The condition of AttackTerritory's while loop.
AttackContinues(front, units) == front > MIN_TERRITORY_UNITS /\ units > 0

\* SingleAttack as AttackTerritory sees it: the values it writes back. Its dice
\* arrays are dead at the return, the losses are all that is left of them.
SingleAttackResults(front, units) ==
    {[front |-> USub(front, l.lost_attack_units),
      units |-> USub(units, l.lost_defend_units),
      lost_attack_units |-> l.lost_attack_units,
      lost_defend_units |-> l.lost_defend_units] :
        l \in LossTable[AttackDiceCount(front)][DefendDiceCount(units)]}

\* One pass of the while loop: the call of SingleAttack on the loop's own variables.
AttackRound ==
    /\ pc = "AttackLoop"
    /\ AttackContinues(front_units, territory_units)
    /\ \E r \in SingleAttackResults(front_units, territory_units) :
          /\ front_units' = r.front
          /\ territory_units' = r.units
          /\ lost_attack_units' = r.lost_attack_units
          /\ lost_defend_units' = r.lost_defend_units
    /\ sa_units_on_front' = front_units
    /\ sa_territory_units' = territory_units
    /\ rounds' = rounds + 1
    /\ UNCHANGED <<pc, attack_vector, bonus_units, remaining, win_count, loss_count,
                   total_units_on_front, total_enemy_units_remaining,
                   total_territories_remaining, enemy_units_remaining, result,
                   units_on_front, territory_cursor, size, remaining_units_on_front,
                   remaining_territory_units, at_units_on_front, outcomes,
                   attack_dice, defend_dice,
                   diceVars, planVars>>

\* The loop has ended: AttackTerritory writes its two out values and returns.
AttackTerritoryReturn ==
    /\ pc = "AttackLoop"
    /\ ~AttackContinues(front_units, territory_units)
    /\ remaining_units_on_front' = front_units
    /\ remaining_territory_units' = territory_units
    /\ outcomes' = Append(outcomes, [index |-> territory_cursor, units |-> territory_units])
    /\ pc' = "SimCheck"
    /\ UNCHANGED <<attack_vector, bonus_units, remaining, win_count, loss_count,
                   total_units_on_front, total_enemy_units_remaining,
                   total_territories_remaining, enemy_units_remaining, result,
                   units_on_front, territory_cursor, size, at_units_on_front,
                   front_units, territory_units, rounds, roundVars,
                   diceVars, planVars>>

\* --------------------------------------------------------------- SimAttack
TerritoryCount(av) == Len(av.territory_vector)

\* Mutant of LeaveGarrison: no unit stays behind.
LeaveGarrison_None(front) == front

\* The front that moves on after a conquered territory: one unit stays behind.
LeaveGarrison(front) == USub(front, MIN_TERRITORY_UNITS)

\* What SimAttack writes to *result.
AttackResult(conquered, front, enemy) ==
    [conquered_territory_count |-> conquered,
     units_on_front |-> front,
     enemy_units_on_front |-> enemy]

\* The for loop's test passes (size-- > 0): AttackTerritory is called on the
\* territory under the cursor.
SimAttackTerritory ==
    /\ pc = "SimLoop"
    /\ size > 0
    /\ size' = size - 1
    /\ at_units_on_front' = units_on_front
    /\ front_units' = units_on_front
    /\ territory_units' = attack_vector.territory_vector[territory_cursor + 1]
    /\ rounds' = 0
    /\ pc' = "AttackLoop"
    /\ UNCHANGED <<attack_vector, bonus_units, remaining, win_count, loss_count,
                   total_units_on_front, total_enemy_units_remaining,
                   total_territories_remaining, enemy_units_remaining, result,
                   units_on_front, territory_cursor, remaining_units_on_front,
                   remaining_territory_units, outcomes, roundVars,
                   diceVars, planVars>>

\* remaining_territory_units == 0: leave the garrison, move the cursor on.
SimAdvance ==
    /\ pc = "SimCheck"
    /\ remaining_territory_units = 0
    /\ units_on_front' = LeaveGarrison(remaining_units_on_front)
    /\ territory_cursor' = territory_cursor + 1
    /\ pc' = "SimLoop"
    /\ UNCHANGED <<attack_vector, bonus_units, remaining, win_count, loss_count,
                   total_units_on_front, total_enemy_units_remaining,
                   total_territories_remaining, enemy_units_remaining, result,
                   size, remaining_units_on_front, remaining_territory_units,
                   at_units_on_front, front_units, territory_units, rounds,
                   outcomes, roundVars,
                   diceVars, planVars>>

\* Mutant of SimBreak: the else branch without its break, the cursor moves on.
SimBreak_NoBreak ==
    /\ pc = "SimCheck"
    /\ remaining_territory_units # 0
    /\ units_on_front' = remaining_units_on_front
    /\ territory_cursor' = territory_cursor + 1
    /\ pc' = "SimLoop"
    /\ UNCHANGED <<attack_vector, bonus_units, remaining, win_count, loss_count,
                   total_units_on_front, total_enemy_units_remaining,
                   total_territories_remaining, enemy_units_remaining, result,
                   size, remaining_units_on_front, remaining_territory_units,
                   at_units_on_front, front_units, territory_units, rounds,
                   outcomes, roundVars,
                   diceVars, planVars>>

\* The else branch: the attack failed, break, write the result and return.
SimBreak ==
    /\ pc = "SimCheck"
    /\ remaining_territory_units # 0
    /\ units_on_front' = remaining_units_on_front
    /\ result' = AttackResult(territory_cursor, remaining_units_on_front,
                              remaining_territory_units)
    /\ pc' = "Classify"
    /\ UNCHANGED <<attack_vector, bonus_units, remaining, win_count, loss_count,
                   total_units_on_front, total_enemy_units_remaining,
                   total_territories_remaining, enemy_units_remaining,
                   territory_cursor, size, remaining_units_on_front,
                   remaining_territory_units, at_units_on_front, front_units,
                   territory_units, rounds, outcomes, roundVars,
                   diceVars, planVars>>

\* The for loop's test fails (every territory was attacked): write the result
\* and return.
SimFinish ==
    /\ pc = "SimLoop"
    /\ size = 0
    /\ result' = AttackResult(territory_cursor, units_on_front,
                              remaining_territory_units)
    /\ pc' = "Classify"
    /\ UNCHANGED <<attack_vector, bonus_units, remaining, win_count, loss_count,
                   total_units_on_front, total_enemy_units_remaining,
                   total_territories_remaining, enemy_units_remaining,
                   units_on_front, territory_cursor, size, remaining_units_on_front,
                   remaining_territory_units, at_units_on_front, front_units,
                   territory_units, rounds, outcomes, roundVars,
                   diceVars, planVars>>

\* ----------------------------------------------------------- PredictAttack
\* The loop test passes (remaining-- > 0): SimAttack is called and sets up its
\* locals.
PredictSimulate ==
    /\ pc = "Predict"
    /\ remaining > 0
    /\ remaining' = remaining - 1
    /\ units_on_front' = UAdd(attack_vector.units_on_front, bonus_units)
    /\ territory_cursor' = 0
    /\ size' = TerritoryCount(attack_vector)
    /\ outcomes' = <<>>
    /\ pc' = "SimLoop"
    /\ UNCHANGED <<attack_vector, bonus_units, win_count, loss_count,
                   total_units_on_front, total_enemy_units_remaining,
                   total_territories_remaining, enemy_units_remaining, result,
                   remaining_units_on_front, remaining_territory_units,
                   at_units_on_front, front_units, territory_units, rounds,
                   roundVars,
                   diceVars, planVars>>

\* result.enemy_units_on_front == 0: a win.
PredictWin ==
    /\ pc = "Classify"
    /\ result.enemy_units_on_front = 0
    /\ win_count' = UAdd(win_count, 1)
    /\ total_units_on_front' = UAdd(total_units_on_front, result.units_on_front)
    /\ pc' = "Predict"
    /\ UNCHANGED <<attack_vector, bonus_units, remaining, loss_count,
                   total_enemy_units_remaining, total_territories_remaining,
                   enemy_units_remaining, result, units_on_front, territory_cursor,
                   size, remaining_units_on_front, remaining_territory_units,
                   at_units_on_front, front_units, territory_units, rounds,
                   outcomes, roundVars,
                   diceVars, planVars>>

RECURSIVE SumUnits(_, _, _)
\* The loss branch's for loop: territories[index].units summed for the 0-based
\* index from first while index < territory_count.
SumUnits(territories, first, territory_count) ==
    IF first < territory_count
    THEN UAdd(territories[first + 1], SumUnits(territories, first + 1, territory_count))
    ELSE 0

\* Mutant of FirstUnreached: the loop starts at the territory that stopped the
\* assault.
FirstUnreached_AtStop(conquered_territory_count) == conquered_territory_count

\* The 0-based index the loss branch's for loop starts at.
FirstUnreached(conquered_territory_count) == conquered_territory_count + 1

\* The else branch: a loss.
PredictLoss ==
    /\ pc = "Classify"
    /\ result.enemy_units_on_front # 0
    /\ LET territory_count == TerritoryCount(attack_vector)
           enemies == UAdd(result.enemy_units_on_front,
                           SumUnits(attack_vector.territory_vector,
                                    FirstUnreached(result.conquered_territory_count),
                                    territory_count))
       IN  /\ enemy_units_remaining' = enemies
           /\ total_enemy_units_remaining' = UAdd(total_enemy_units_remaining, enemies)
           /\ total_territories_remaining' =
                 UAdd(total_territories_remaining,
                      USub(territory_count, result.conquered_territory_count))
    /\ loss_count' = UAdd(loss_count, 1)
    /\ pc' = "Predict"
    /\ UNCHANGED <<attack_vector, bonus_units, remaining, win_count,
                   total_units_on_front, result, units_on_front, territory_cursor,
                   size, remaining_units_on_front, remaining_territory_units,
                   at_units_on_front, front_units, territory_units, rounds,
                   outcomes, roundVars,
                   diceVars, planVars>>

\* The loop test fails: the prediction is written from the counters.
PredictReturn ==
    /\ pc = "Predict"
    /\ remaining = 0
    /\ pc' = "PredictDone"
    /\ UNCHANGED <<combatVars, roundVars,
                   diceVars, planVars>>

\* Every attack vector ParseAttackVector can hand over within the bounds: a front
\* of at least one unit and at least one territory.
AttackVectors ==
    {[units_on_front |-> f, territory_vector |-> t] :
        f \in 1..MaxFront,
        t \in UNION {[1..n -> 0..MaxUnits] : n \in 1..MaxTerritories}}

Init ==
    /\ pc = "Predict"
    /\ attack_vector \in AttackVectors
    /\ bonus_units \in 0..MaxBonus
    /\ remaining \in 1..MaxIterations
    /\ win_count = 0
    /\ loss_count = 0
    /\ total_units_on_front = 0
    /\ total_enemy_units_remaining = 0
    /\ total_territories_remaining = 0
    /\ enemy_units_remaining = 0
    /\ result = AttackResult(0, 0, 0)
    /\ units_on_front = 0
    /\ territory_cursor = 0
    /\ size = 0
    /\ remaining_units_on_front = 0
    /\ remaining_territory_units = 0
    /\ at_units_on_front = 0
    /\ front_units = 0
    /\ territory_units = 0
    /\ rounds = 0
    /\ outcomes = <<>>
    /\ IdleRound
    /\ IdleDice
    /\ IdlePlan

Next ==
    \/ PredictSimulate
    \/ SimAttackTerritory
    \/ AttackRound
    \/ AttackTerritoryReturn
    \/ SimAdvance
    \/ SimBreak
    \/ SimFinish
    \/ PredictWin
    \/ PredictLoss
    \/ PredictReturn

Spec == Init /\ [][Next]_vars

\* --------------------------------------------------------- UniformDiceRoll
\* #define MAX_DICE_RAND_VALUE ((UINT_MAX/DICE_SIDES)*DICE_SIDES)
MAX_DICE_RAND_VALUE == (uint_max \div DICE_SIDES) * DICE_SIDES

\* The generator of SpecDice returns 0, 1, ..., RAND_MAX, each once: every raw
\* value equally often. rand() returns an int, so RAND_MAX is at most INT_MAX;
\* RAND_MAX = UINT_MAX is the generator whose range is the one the macro assumes.
UniformDiceRollVars(raw) ==
    /\ rand_value' = raw
    /\ rand_next' = raw + 1

\* rand_value >= MAX_DICE_RAND_VALUE: the do-while loop draws again.
UniformDiceRollResample ==
    /\ pc = "UniformDiceRoll"
    /\ rand_next <= rand_max
    /\ rand_next >= MAX_DICE_RAND_VALUE
    /\ UniformDiceRollVars(rand_next)
    /\ reject_count' = reject_count + 1
    /\ UNCHANGED <<pc, uint_max, rand_max, dice_value, face_count, combatVars,
                   roundVars, planVars>>

\* The loop ends: dice_value = (rand_value%DICE_SIDES)+1 is returned.
UniformDiceRollReturn ==
    /\ pc = "UniformDiceRoll"
    /\ rand_next <= rand_max
    /\ rand_next < MAX_DICE_RAND_VALUE
    /\ UniformDiceRollVars(rand_next)
    /\ LET face == (rand_next % DICE_SIDES) + 1
       IN  /\ dice_value' = face
           /\ face_count' = [face_count EXCEPT ![face] = @ + 1]
    /\ UNCHANGED <<pc, uint_max, rand_max, reject_count, combatVars, roundVars,
                   planVars>>

\* The generator has returned every raw value once.
GeneratorPeriodEnds ==
    /\ pc = "UniformDiceRoll"
    /\ rand_next > rand_max
    /\ pc' = "RawValuesDone"
    /\ UNCHANGED <<diceVars, combatVars, roundVars, planVars>>

InitDice ==
    /\ pc = "UniformDiceRoll"
    /\ \E bits \in 4..DiceMaxBits :
          /\ uint_max = 2^bits - 1
          /\ rand_max \in {2^(bits - 1) - 1, 2^bits - 1}
    /\ rand_next = 0
    /\ rand_value = 0
    /\ dice_value = 0
    /\ face_count = [f \in DiceFaces |-> 0]
    /\ reject_count = 0
    /\ IdleCombat
    /\ front_units = 0
    /\ territory_units = 0
    /\ IdleRound
    /\ IdlePlan

NextDice ==
    \/ UniformDiceRollResample
    \/ UniformDiceRollReturn
    \/ GeneratorPeriodEnds

SpecDice == InitDice /\ [][NextDice]_vars


\* ----------------------------------------------------------------- PlanWar
RECURSIVE SumSeq(_)
SumSeq(q) == IF q = <<>> THEN 0 ELSE Head(q) + SumSeq(Tail(q))

\* (float)win_count/(float)(win_count+loss_count), kept as the fraction; den = 0
\* is the NaN of 0/0.
Likelihood(wins, losses) == [num |-> wins, den |-> wins + losses]

\* win_likelihood >= likelihood_threshold; false for a NaN.
LikelihoodAtLeast(l, threshold) ==
    l.den # 0 /\ l.num * threshold.den >= threshold.num * l.den

\* Mutant of SetupScore: the threshold is not applied.
SetupScore_Ungated(l, threshold) == l.num

\* setup->score. Every likelihood of one PlanWar call has the denominator
\* sim_iterations, so a score is kept as its numerator: score = value/sim_iterations.
SetupScore(l, threshold) == IF LikelihoodAtLeast(l, threshold) THEN l.num ELSE 0

\* What PredictAttack leaves in setup->prediction: each of its sim_iterations
\* runs is counted as a win or as a loss.
Predictions(iterations) ==
    {[win_count |-> w, loss_count |-> iterations - w,
      win_likelihood |-> Likelihood(w, iterations - w)] : w \in 0..iterations}

\* The body of the table's inner loop for setups[setup_index][setup_bonus], and
\* the step of the two for loops.
PlanSetup ==
    /\ pc = "Setups"
    /\ setup_index < attack_vector_count
    /\ \E prediction \in Predictions(sim_iterations) :
          LET setup == [attack_vector |-> setup_index,
                        bonus |-> setup_bonus,
                        prediction |-> prediction,
                        score |-> SetupScore(prediction.win_likelihood,
                                             likelihood_threshold)]
              at == <<setup_index, setup_bonus>>
          IN  setups' = [k \in DOMAIN setups \cup {at} |->
                            IF k = at THEN setup ELSE setups[k]]
    /\ IF setup_bonus + 1 <= plan_bonus_units
       THEN setup_bonus' = setup_bonus + 1 /\ setup_index' = setup_index
       ELSE setup_bonus' = 0 /\ setup_index' = setup_index + 1
    /\ UNCHANGED <<pc, attack_vector_count, plan_bonus_units, likelihood_threshold,
                   sim_iterations, bonus_indices, plans, cursor, plans_size,
                   plans_count, reported, combatVars, roundVars, diceVars>>

\* InitCombinations(bonus_indices, attack_vector_count); cursor = plans.
PlanInitCombinations ==
    /\ pc = "Setups"
    /\ setup_index >= attack_vector_count
    /\ bonus_indices' = [i \in 1..attack_vector_count |-> 0]
    /\ cursor' = 0
    /\ pc' = "Enumerate"
    /\ UNCHANGED <<attack_vector_count, plan_bonus_units, likelihood_threshold,
                   sim_iterations, setups, setup_index, setup_bonus, plans,
                   plans_size, plans_count, reported, combatVars, roundVars,
                   diceVars>>

\* Mutant of DigitRemains: the digit stops one short of last_index.
DigitRemains_Short(value, last_index) == value < last_index

\* indices[index] <= last_index
DigitRemains(value, last_index) == value <= last_index

RECURSIVE NextCombinationAt(_, _, _, _)
\* The do-while loop of NextCombination from the 0-based digit index on.
NextCombinationAt(indices, index, index_count, last_index) ==
    LET raised == [indices EXCEPT ![index + 1] = @ + 1]
        cleared == [indices EXCEPT ![index + 1] = 0]
    IN  IF DigitRemains(raised[index + 1], last_index)
        THEN [state |-> "combinations_remain", indices |-> raised]
        ELSE IF index + 1 < index_count
        THEN NextCombinationAt(cleared, index + 1, index_count, last_index)
        ELSE [state |-> "combinations_exhausted", indices |-> cleared]

NextCombination(indices, index_count, last_index) ==
    NextCombinationAt(indices, 0, index_count, last_index)

\* total_bonus of the do-while body.
TotalBonus(indices) == SumSeq(indices)

\* What the do-while body writes to *cursor: the setups are pointers into the
\* table, kept as the table's <<index, bonus>>.
PlanOf(indices) ==
    [total_score |-> SumSeq([i \in 1..Len(indices) |->
                                setups[<<i - 1, indices[i]>>].score]),
     setups |-> [i \in 1..Len(indices) |-> <<i - 1, indices[i]>>],
     setup_count |-> Len(indices)]

WriteSlot(array, slot, plan) ==
    [k \in DOMAIN array \cup {slot} |-> IF k = slot THEN plan ELSE array[k]]

\* The while condition of the do-while loop: NextCombination moves the digits,
\* the loop goes on while combinations remain.
PlanNextCombination ==
    LET next == NextCombination(bonus_indices, attack_vector_count, plan_bonus_units)
    IN  /\ bonus_indices' = next.indices
        /\ pc' = IF next.state = "combinations_remain" THEN "Enumerate" ELSE "Sort"

\* One pass of the do-while loop whose tuple does not sum to bonus_units: the
\* slot under the cursor is written, then continue.
PlanSkip ==
    /\ pc = "Enumerate"
    /\ TotalBonus(bonus_indices) # plan_bonus_units
    /\ plans' = WriteSlot(plans, cursor, PlanOf(bonus_indices))
    /\ PlanNextCombination
    /\ UNCHANGED <<attack_vector_count, plan_bonus_units, likelihood_threshold,
                   sim_iterations, setups, setup_index, setup_bonus, cursor,
                   plans_size, plans_count, reported, combatVars, roundVars,
                   diceVars>>

\* Mutant of PlansFull: the array grows one plan too late.
PlansFull_Late(count, capacity) == count > capacity

\* plans_count >= plans_size, tested after plans_count++.
PlansFull(count, capacity) == count >= capacity

\* One pass whose tuple sums to bonus_units: the slot is kept, the array grows
\* when plans_count reaches plans_size, the cursor moves to plans[plans_count].
PlanStore ==
    /\ pc = "Enumerate"
    /\ TotalBonus(bonus_indices) = plan_bonus_units
    /\ plans' = WriteSlot(plans, cursor, PlanOf(bonus_indices))
    /\ plans_count' = plans_count + 1
    /\ plans_size' = IF PlansFull(plans_count + 1, plans_size)
                     THEN plans_size + PLANS_SIZE_INCREMENT
                     ELSE plans_size
    /\ cursor' = plans_count + 1
    /\ PlanNextCombination
    /\ UNCHANGED <<attack_vector_count, plan_bonus_units, likelihood_threshold,
                   sim_iterations, setups, setup_index, setup_bonus, reported,
                   combatVars, roundVars, diceVars>>

\* Mutant of ComparePlan: the order is ascending.
ComparePlan_Ascending(left, right) ==
    IF right.total_score > left.total_score THEN -1
    ELSE IF right.total_score < left.total_score THEN 1
    ELSE 0

ComparePlan(left, right) ==
    IF right.total_score > left.total_score THEN 1
    ELSE IF right.total_score < left.total_score THEN -1
    ELSE 0

RECURSIVE InsertPlan(_, _)
InsertPlan(plan, sorted) ==
    IF sorted = <<>> THEN <<plan>>
    ELSE IF ComparePlan(plan, Head(sorted)) <= 0 THEN <<plan>> \o sorted
    ELSE <<Head(sorted)>> \o InsertPlan(plan, Tail(sorted))

RECURSIVE OrderPlans(_)
OrderPlans(q) == IF q = <<>> THEN <<>> ELSE InsertPlan(Head(q), OrderPlans(Tail(q)))

\* qsort(plans, plans_count, sizeof(struct attack_plan), &ComparePlan): the
\* order of plans that compare equal is unspecified. Only plans[0] is read after
\* the sort, so the results kept are the ordered array with any plan that
\* compares equal to the first one in the first place.
SortPlans(array, count) ==
    LET ordered == OrderPlans([i \in 1..count |-> array[i - 1]])
        firsts == {k \in 1..count : ComparePlan(ordered[1], ordered[k]) = 0}
    IN  {[i \in DOMAIN array |->
            IF i >= count THEN array[i]
            ELSE IF i = 0 THEN ordered[k]
            ELSE IF i = k - 1 THEN ordered[1]
            ELSE ordered[i + 1]] : k \in firsts}

PlanSort ==
    /\ pc = "Sort"
    /\ plans' \in SortPlans(plans, plans_count)
    /\ pc' = "Report"
    /\ UNCHANGED <<attack_vector_count, plan_bonus_units, likelihood_threshold,
                   sim_iterations, setups, setup_index, setup_bonus, bonus_indices,
                   cursor, plans_size, plans_count, reported, combatVars, roundVars,
                   diceVars>>

\* The loop that prints plans[0].setups[index] for every vector.
PlanReport ==
    /\ pc = "Report"
    /\ reported' = [i \in 1..attack_vector_count |-> setups[plans[0].setups[i]]]
    /\ pc' = "PlanDone"
    /\ UNCHANGED <<attack_vector_count, plan_bonus_units, likelihood_threshold,
                   sim_iterations, setups, setup_index, setup_bonus, bonus_indices,
                   plans, cursor, plans_size, plans_count, combatVars, roundVars,
                   diceVars>>

\* PlanWar up to its first loop: the array is allocated, nothing else is set.
PlanWarEntry ==
    /\ pc = "Setups"
    /\ setups = <<>>
    /\ setup_index = 0
    /\ setup_bonus = 0
    /\ bonus_indices = <<>>
    /\ plans = <<>>
    /\ cursor = 0
    /\ plans_size = PLANS_SIZE_INCREMENT
    /\ plans_count = 0
    /\ reported = <<>>
    /\ IdleCombat
    /\ front_units = 0
    /\ territory_units = 0
    /\ IdleRound
    /\ IdleDice

\* The thresholds: the fractions k/MaxPlanIterations from 0 to above 1.
Thresholds ==
    {[num |-> k, den |-> MaxPlanIterations] : k \in 0..(MaxPlanIterations + 1)}

\* main calls PlanWar with bonus_units # 0 and at least one attack vector.
InitPlan ==
    /\ PlanWarEntry
    /\ attack_vector_count \in 1..MaxVectors
    /\ plan_bonus_units \in 1..MaxBonusPool
    /\ attack_vector_count * (plan_bonus_units + 1) <= MaxSetups
    /\ sim_iterations \in 0..MaxPlanIterations
    /\ likelihood_threshold \in Thresholds

\* The same with sim_iterations = 0: every likelihood is the NaN of 0/0 and
\* every score 0, whatever the threshold.
InitEnum ==
    /\ PlanWarEntry
    /\ attack_vector_count \in 1..EnumMaxVectors
    /\ plan_bonus_units \in 1..EnumMaxBonusPool
    /\ sim_iterations = 0
    /\ likelihood_threshold = [num |-> 0, den |-> 1]

NextPlan ==
    \/ PlanSetup
    \/ PlanInitCombinations
    \/ PlanSkip
    \/ PlanStore
    \/ PlanSort
    \/ PlanReport

SpecPlan == InitPlan /\ [][NextPlan]_vars

SpecEnum == InitEnum /\ [][NextPlan]_vars


\* ------------------------------------------------------------------ claims
Max2(a, b) == IF a > b THEN a ELSE b

SortedDescending(dice) == \A i \in 1..(Len(dice) - 1) : dice[i] >= dice[i + 1]

\* C1: a round fought with front >= 2 and defenders >= 1 rolls min(front-1, 3)
\* attack dice and min(defenders, 2) defence dice, both sorted descending; over
\* the first min(a, d) positions the defender loses one unit per strictly greater
\* attack die and the attacker one unit per other position (ties included), so
\* front-1+defenders drops by exactly min(a, d), which is 1 or 2.
C1_RoundLosses ==
    pc = "SingleAttackEnd" =>
        LET a == Len(attack_dice)
            d == Len(defend_dice)
            n == MIN(a, d)
            greater == Cardinality({i \in 1..n : attack_dice[i] > defend_dice[i]})
        IN  /\ a = MIN(sa_units_on_front - 1, 3)
            /\ d = MIN(sa_territory_units, 2)
            /\ \A i \in 1..a : attack_dice[i] \in 1..6
            /\ \A i \in 1..d : defend_dice[i] \in 1..6
            /\ SortedDescending(attack_dice)
            /\ SortedDescending(defend_dice)
            /\ sa_territory_units - territory_units = greater
            /\ sa_units_on_front - front_units = n - greater
            /\ (sa_units_on_front - 1 + sa_territory_units)
                 - (front_units - 1 + territory_units) = n
            /\ n \in {1, 2}

\* A round of 4 against 2 with three attack dice, the top pair tied (the attacker
\* loses it) and the second pair won by the attacker.
C1_Witness ==
    /\ pc = "SingleAttackEnd"
    /\ sa_units_on_front = 4
    /\ sa_territory_units = 2
    /\ attack_dice = <<5, 4, 2>>
    /\ defend_dice = <<5, 3>>
    /\ front_units = 3
    /\ territory_units = 1

\* C2: every AttackTerritory call returns with remaining front units == 1 or
\* remaining territory units == 0.
C2_FloorOrConquered ==
    pc = "SimCheck" =>
        \/ remaining_units_on_front = 1
        \/ remaining_territory_units = 0

\* C3: SimAttack attacks the territories in order and stops at the first one left
\* with defenders; conquered_territory_count is the number that fell and the index
\* of the one that stopped the assault; enemy_units_on_front is that territory's
\* remaining defenders, and 0 exactly when every territory fell.
C3_StopsAtFirstFailure ==
    LET n == Len(outcomes)
        fell == {i \in 1..n : outcomes[i].units = 0}
    IN  /\ pc \in {"SimLoop", "AttackLoop", "SimCheck", "Classify"} =>
              /\ \A i \in 1..n : outcomes[i].index = i - 1
              /\ \A i \in 1..(n - 1) : outcomes[i].units = 0
              /\ n <= TerritoryCount(attack_vector)
        /\ pc = "Classify" =>
              /\ n >= 1
              /\ result.conquered_territory_count = Cardinality(fell)
              /\ outcomes[n].units > 0 =>
                    /\ result.conquered_territory_count = outcomes[n].index
                    /\ result.enemy_units_on_front = outcomes[n].units
              /\ result.enemy_units_on_front = 0 <=>
                    /\ n = TerritoryCount(attack_vector)
                    /\ fell = 1..n

\* The assault took the first territory and was stopped at the second of two.
C3_Witness ==
    /\ pc = "Classify"
    /\ TerritoryCount(attack_vector) = 2
    /\ Len(outcomes) = 2
    /\ outcomes[2].units = 1
    /\ result.conquered_territory_count = 1
    /\ result.enemy_units_on_front = 1

RECURSIVE SumFrom(_, _)
SumFrom(units, i) == IF i > Len(units) THEN 0 ELSE units[i] + SumFrom(units, i + 1)

\* C4: a run classified as a loss adds to the enemy-units-remaining total the
\* remaining defenders of the territory that stopped the assault plus the stored
\* defender counts of every territory strictly after it; no step modifies the
\* attack vector.
C4_LossEnemyUnits ==
    [][/\ attack_vector' = attack_vector
       /\ (pc = "Classify" /\ result.enemy_units_on_front # 0) =>
            LET stop == outcomes[Len(outcomes)]
                expected == stop.units
                              + SumFrom(attack_vector.territory_vector, stop.index + 2)
            IN  /\ enemy_units_remaining' = expected
                /\ total_enemy_units_remaining'
                     = (total_enemy_units_remaining + expected) % UintMod]_vars

\* The second of two iterations was lost at the first of two territories, whose
\* successor holds 2 units.
C4_Witness ==
    /\ pc = "Predict"
    /\ loss_count = 2
    /\ TerritoryCount(attack_vector) = 2
    /\ attack_vector.territory_vector[2] = 2
    /\ result.conquered_territory_count = 0
    /\ result.enemy_units_on_front = 1
    /\ enemy_units_remaining = 3

\* The tuples of per-vector bonus amounts in [0, bonus_units] that sum to the pool.
AdmissibleTuples ==
    {t \in [1..attack_vector_count -> 0..plan_bonus_units] :
        SumSeq(t) = plan_bonus_units}

\* The bonus amounts of a stored plan, read through its setup pointers.
PlanBonuses(plan) == [i \in 1..plan.setup_count |-> setups[plan.setups[i]].bonus]

StoredTuples == {PlanBonuses(plans[i]) : i \in 0..(plans_count - 1)}

RECURSIVE Binomial(_, _)
Binomial(n, k) ==
    IF k = 0 THEN 1
    ELSE IF n = 0 THEN 0
    ELSE Binomial(n - 1, k - 1) + Binomial(n - 1, k)

\* The sum over the vectors of the table's score for the bonus the tuple assigns.
TupleScore(t) == SumSeq([i \in 1..Len(t) |-> setups[<<i - 1, t[i]>>].score])

\* C5: when the enumeration has finished, plans[0..plans_count-1] hold exactly
\* the V-tuples of bonus amounts in [0, B] that sum to B, each once, so
\* plans_count = C(B+V-1, V-1); for B = 2, V = 2 they are (0,2), (1,1), (2,0) and
\* for V = 1 the single tuple (B).
C5_AdmissibleTuplesStored ==
    pc \in {"Sort", "Report", "PlanDone"} =>
        /\ StoredTuples = AdmissibleTuples
        /\ Cardinality(StoredTuples) = plans_count
        /\ plans_count = Binomial(plan_bonus_units + attack_vector_count - 1,
                                  attack_vector_count - 1)
        /\ (attack_vector_count = 2 /\ plan_bonus_units = 2) =>
              StoredTuples = {<<0, 2>>, <<1, 1>>, <<2, 0>>}
        /\ attack_vector_count = 1 => StoredTuples = {<<plan_bonus_units>>}

\* The enumeration over 3 vectors and a pool of 3 has finished with 10 plans.
C5_Witness ==
    /\ pc = "Sort"
    /\ attack_vector_count = 3
    /\ plan_bonus_units = 3
    /\ plans_count = 10

\* C6: the plan reported, plans[0] after the sort, is an admissible plan whose
\* total score is the sum of its setups' scores and is >= the total score of
\* every admissible plan; the scratch slot left by a non-admissible tuple takes
\* no part.
C6_BestPlanReported ==
    pc \in {"Report", "PlanDone"} =>
        /\ PlanBonuses(plans[0]) \in AdmissibleTuples
        /\ plans[0].total_score = TupleScore(PlanBonuses(plans[0]))
        /\ \A t \in AdmissibleTuples : plans[0].total_score >= TupleScore(t)

\* The scratch slot holds a non-admissible tuple that scores more than the best
\* admissible plan, which in turn scores more than another admissible plan.
C6_Witness ==
    /\ pc = "Report"
    /\ plans_count \in DOMAIN plans
    /\ plans[plans_count].total_score > plans[0].total_score
    /\ \E t \in AdmissibleTuples : TupleScore(t) < plans[0].total_score

BelowThreshold(l) ==
    l.den = 0 \/ l.num * likelihood_threshold.den < likelihood_threshold.num * l.den

\* C7: a setup's score is its win likelihood when that is >= the threshold and 0
\* otherwise; when every setup's likelihood is below the threshold every plan's
\* total score is 0 and the reported plan is still one setup per vector, the k-th
\* for the k-th vector, with bonuses that sum to the pool.
C7_ThresholdGate ==
    /\ \A k \in DOMAIN setups :
          LET l == setups[k].prediction.win_likelihood
          IN  /\ BelowThreshold(l) => setups[k].score = 0
              /\ ~BelowThreshold(l) =>
                    /\ l.den = sim_iterations
                    /\ setups[k].score = l.num
    /\ (/\ pc = "PlanDone"
        /\ \A k \in DOMAIN setups : BelowThreshold(setups[k].prediction.win_likelihood)) =>
            /\ \A i \in 0..(plans_count - 1) : plans[i].total_score = 0
            /\ Len(reported) = attack_vector_count
            /\ \A i \in 1..Len(reported) : reported[i].attack_vector = i - 1
            /\ SumSeq([i \in 1..Len(reported) |-> reported[i].bonus]) = plan_bonus_units

\* Two vectors, a pool of 2, every likelihood below the threshold though some
\* runs were won: a plan is reported.
C7_Witness ==
    /\ pc = "PlanDone"
    /\ attack_vector_count = 2
    /\ plan_bonus_units = 2
    /\ \A k \in DOMAIN setups : BelowThreshold(setups[k].prediction.win_likelihood)
    /\ \E k \in DOMAIN setups : setups[k].prediction.win_count > 0
    /\ Len(reported) = 2

\* C8: UniformDiceRoll has no modulo bias whatever the generator's range: once
\* the generator has returned every raw value in [0, RAND_MAX] once, each of the
\* six faces was returned the same number of times.
C8_NoModuloBias ==
    pc = "RawValuesDone" =>
        \A f, g \in DiceFaces : face_count[f] = face_count[g]

\* The same, for the generators whose range is the one MAX_DICE_RAND_VALUE is
\* computed from (RAND_MAX = UINT_MAX): there the faces do come out even.
DiceEvenWhenRangesAgree ==
    (pc = "RawValuesDone" /\ rand_max = uint_max) =>
        \A f, g \in DiceFaces : face_count[f] = face_count[g]

\* C9: a single-territory vector with 0 defenders and a front f >= 1 is won with
\* conquered_territory_count = 1 and units_on_front = f-1, without a combat round.
C9_EmptyTerritory ==
    LET f == (attack_vector.units_on_front + bonus_units) % UintMod
    IN  (/\ pc = "Classify"
         /\ attack_vector.territory_vector = <<0>>
         /\ f >= 1) =>
            /\ result = [conquered_territory_count |-> 1,
                         units_on_front |-> f - 1,
                         enemy_units_on_front |-> 0]
            /\ rounds = 0

\* Front 5 (4 and 1 bonus unit) against a single empty territory: 4 units remain.
C9_Witness ==
    /\ pc = "Classify"
    /\ attack_vector.territory_vector = <<0>>
    /\ attack_vector.units_on_front + bonus_units = 5
    /\ result.units_on_front = 4
    /\ result.conquered_territory_count = 1

\* C10: every combat round of AttackTerritory is entered with front >= 2 and
\* defenders >= 1, removes at least one unit without taking the front below 1 or
\* the defenders below 0, and at most max(f-1, 0) + t rounds are fought for a
\* starting front f and defender count t.
C10_RoundsBounded ==
    pc \in {"AttackLoop", "SimCheck"} =>
        LET t == attack_vector.territory_vector[territory_cursor + 1]
        IN  /\ rounds <= Max2(at_units_on_front - 1, 0) + t
            /\ rounds > 0 =>
                  /\ sa_units_on_front >= 2
                  /\ sa_territory_units >= 1
                  /\ front_units >= 1
                  /\ front_units <= sa_units_on_front
                  /\ territory_units >= 0
                  /\ territory_units <= sa_territory_units
                  /\ (sa_units_on_front + sa_territory_units)
                       - (front_units + territory_units) >= 1

\* Front 5 against 1 defender lost four rounds in a row and stands at the floor.
C10_Witness ==
    /\ pc = "SimCheck"
    /\ at_units_on_front = 5
    /\ attack_vector.territory_vector[territory_cursor + 1] = 1
    /\ rounds = 4
    /\ remaining_units_on_front = 1
    /\ remaining_territory_units = 1

\* C11: throughout PlanWar's enumeration the slot written (index plans_count,
\* under the cursor) is strictly below the capacity plans_size; the capacity
\* changes only by growing by exactly one increment, at the step on which
\* plans_count reaches it, and the plans stored before keep their contents.
C11_SlotBelowCapacity ==
    [][/\ cursor = plans_count
       /\ cursor < plans_size
       /\ cursor' = plans_count'
       /\ cursor' < plans_size'
       /\ \A k \in DOMAIN plans' : k < plans_size
       /\ plans_size' >= plans_size
       /\ plans_size' # plans_size =>
             /\ plans_size' = plans_size + PLANS_SIZE_INCREMENT
             /\ plans_count' = plans_size
       /\ pc = "Enumerate" =>
             \A k \in 0..(plans_count - 1) : plans'[k] = plans[k]]_vars

\* The array has just grown for the second time: plans_count has reached twice
\* the increment, and the plans stored so far are in place.
C11_Witness ==
    /\ pc = "Enumerate"
    /\ plans_count = 2 * PLANS_SIZE_INCREMENT
    /\ plans_size = 3 * PLANS_SIZE_INCREMENT
    /\ cursor = plans_count
    /\ DOMAIN plans = 0..(plans_count - 1)

\* C12: the attacker's front never increases during SimAttack: the front handed
\* to each territory and the result's units_on_front are <= base front + bonus
\* (the garrison subtraction never wraps below zero).
C12_FrontNeverIncreases ==
    LET start == attack_vector.units_on_front + bonus_units
    IN  /\ pc \in {"SimLoop", "AttackLoop", "SimCheck", "Classify"} =>
              units_on_front <= start
        /\ pc \in {"AttackLoop", "SimCheck"} => at_units_on_front <= start
        /\ pc = "Classify" => result.units_on_front <= start

====
